---- MODULE Spec2Model ----
(***************************************************************************)
(* Model of main.go: the in-memory student manager (the record store with  *)
(* its login guard), the fan-out/fan-in CSV import and the worker pool of  *)
(* SubmitAssignments.                                                      *)
(*                                                                         *)
(* Three specifications over one set of variables:                         *)
(*   Spec        concurrent callers of Login and Register on one manager   *)
(*   ImportSpec  one ImportStudents call with its reader goroutines        *)
(*   SubmitSpec  one SubmitAssignments call with its 4 workers             *)
(* FairImportSpec and FairSubmitSpec add the fairness of the Go scheduler. *)
(***************************************************************************)
EXTENDS Integers, Sequences, FiniteSets, TLC

----------------------------------------------------------------------------
\* Bounds of the model

\* the store accepts new Register calls while it has fewer records than this
MaxStudents == 5

\* ImportStudents is given at most this many file names
MaxFiles == 3

\* SubmitAssignments is called with at most this many assignments
MaxAssignments == 4

\* goroutines calling the manager concurrently in Spec
Callers == {"c1", "c2"}

\* backing arrays of sm.students in ModifySpec, the first one included
MaxArrays == 3

----------------------------------------------------------------------------
\* Values

Student(id, name, sp) == [ID |-> id, Name |-> name, StudyProgram |-> sp]

\* NewInMemoryStudentManager: the three seed records
SeedStudents ==
    << Student("A12345", "Aditira", "TI"),
       Student("B21313", "Dito", "TK"),
       Student("A34555", "Afis", "MI") >>

\* NewInMemoryStudentManager: the catalog of study programs
SeedPrograms ==
    ("TI" :> "Teknik Informatika") @@ ("TK" :> "Teknik Komputer") @@
    ("SI" :> "Sistem Informasi") @@ ("MI" :> "Manajemen Informasi")

\* the error values of the code ("" stands for a nil error)
NoErr == ""
ErrLoginIDEmpty == "Login gagal: ID tidak boleh kosong"
ErrLoginNameEmpty == "Login gagal: Nama tidak boleh kosong"
ErrLoginLocked == "Login gagal: Batas maksimum login terlampaui"
ErrLoginNotFound == "Login gagal: data mahasiswa tidak ditemukan"
ErrRegisterUndefined == "ID, Name or StudyProgram is undefined!"
ErrRegisterProgram(sp) == "Study program " \o sp \o " is not found"
ErrRegisterDuplicate == "Registrasi gagal: id sudah digunakan"

\* the lockout threshold of Login
MaxFailedLogin == 3

\* inputs of the callers: <<id, name>> of Login, <<id, name, program>> of Register
LoginInputs ==
    { <<"", "Aditira">>, <<"A12345", "">>,
      <<"A12345", "Aditira">>, <<"A12345", "New Student">>,
      <<"Z00000", "Aditira">>, <<"Z00000", "New Student">> }
RegisterInputs ==
    { <<"", "New Student", "TI">>, <<"Z00000", "", "TI">>,
      <<"Z00000", "New Student", "">>, <<"Z00000", "New Student", "XX">>,
      <<"A12345", "Aditira", "TI">>,
      <<"", "New Student", "XX">>, <<"A12345", "Aditira", "XX">>,
      <<"Z00000", "New Student", "TI">>, <<"Z00000", "Aditira", "TI">> }

\* a call: its arguments, and what held when it began (consec: the id's
\* consecutive failed Logins when Login was called; attempts: the id's count when
\* Login took the lock; matched: whether a record had this id and name at the lookup;
\* known: whether a record had this id when the call looked for it)
NoCall ==
    [op |-> "none", id |-> "", name |-> "", sp |-> "",
     consec |-> 0, attempts |-> 0, matched |-> FALSE, known |-> FALSE]
\* the call that returned last, with what it returned
NoLast == [call |-> NoCall, err |-> NoErr, msg |-> <<>>]
Returned(c, e, m) == [call |-> c, err |-> e, msg |-> m]

----------------------------------------------------------------------------
VARIABLES
    students,             \* sm.students
    studentStudyPrograms, \* sm.studentStudyPrograms
    failedLoginAttempts,  \* sm.failedLoginAttempts: a map, absent keys read 0
    mutex,                \* sm.Mutex: its holder, or "free"
    pc,                   \* each caller's position
    call,                 \* each caller's call in progress
    last,                 \* history: the call that returned last, and its result
    local,                \* Register: the slice header append has loaded
    consecFailed,         \* history: consecutive failed Logins per id
    unknownFailed         \* history: those of them made while the id had no record

VARIABLES
    filenames,            \* ImportStudents: its argument
    importPc,             \* ImportStudents: the position of the calling goroutine
    spawned,              \* ImportStudents: how many readers the loop has started
    importWg,             \* ImportStudents: the counter of wg
    studentsChanClosed,   \* ImportStudents: whether studentsChan is closed
    readerPc,             \* ImportStudents: each reader goroutine's position
    closerPc,             \* ImportStudents: the position of the closing goroutine
    batch,                \* ImportStudents: the batch the consumer is registering
    batchIdx,             \* ImportStudents: the index of the next record in batch
    importErr,            \* ImportStudents: the error returned
    received              \* history: the sources whose batch arrived, in order

VARIABLES
    numAssignments,       \* SubmitAssignments: its argument
    submitPc,             \* SubmitAssignments: the position of the calling goroutine
    started,              \* SubmitAssignments: how many workers the loop has started
    submitI,              \* SubmitAssignments: the loop variable i of the producer
    jobs,                 \* SubmitAssignments: the content of the jobs channel
    jobsClosed,           \* SubmitAssignments: whether jobs is closed
    resultsClosed,        \* SubmitAssignments: whether results is closed
    submitWg,             \* SubmitAssignments: the counter of wg
    workerPc,             \* SubmitAssignments: each worker's position
    workerJob,            \* SubmitAssignments: the assignment each worker holds
    waiterPc,             \* SubmitAssignments: the position of the closing goroutine
    printed               \* SubmitAssignments: the results printed, in order

VARIABLES
    arrays,               \* the backing arrays allocated for sm.students
    header,               \* the slice sm.students: its array and its length
    localHeader,          \* per caller: the slice append built, not yet stored
    found,                \* per caller: the index where ModifyStudent's loop stopped
    held,                 \* the slice the last GetStudents call returned
    heldTaken             \* history: the records it held when it was returned

storeVars == <<students, studentStudyPrograms, failedLoginAttempts, mutex>>
callerVars == <<pc, call, last, local, consecFailed, unknownFailed>>
importVars ==
    <<filenames, importPc, spawned, importWg, studentsChanClosed, readerPc,
      closerPc, batch, batchIdx, importErr, received>>
submitVars ==
    <<numAssignments, submitPc, started, submitI, jobs, jobsClosed, resultsClosed,
      submitWg, workerPc, workerJob, waiterPc, printed>>
heapVars == <<arrays, header, localHeader, found, held, heldTaken>>

----------------------------------------------------------------------------
\* Pure helpers

\* a map read: the zero value for an absent key
Attempts(f, id) == IF id \in DOMAIN f THEN f[id] ELSE 0

\* the map write f[id] = n
SetAttempts(f, id, n) == [k \in DOMAIN f \cup {id} |-> IF k = id THEN n ELSE f[k]]

\* a lockout check that lets the third failure through
IsLockedOutOffByOne(f, id) == id \in DOMAIN f /\ f[id] > MaxFailedLogin

\* Login line 101: exists && attempts >= 3
IsLockedOut(f, id) == id \in DOMAIN f /\ f[id] >= MaxFailedLogin

\* index of the first record with this ID, 0 when there is none
FirstByID(s, id) ==
    IF \E i \in 1..Len(s) : s[i].ID = id
    THEN CHOOSE i \in 1..Len(s) :
            s[i].ID = id /\ \A j \in 1..(i - 1) : s[j].ID # id
    ELSE 0

\* the program's full name; the zero value for an unknown code
ProgramName(cat, code) == IF code \in DOMAIN cat THEN cat[code] ELSE ""


----------------------------------------------------------------------------
\* Login

\* lines 94-103: the input checks, then the lockout check
LoginGuard(f, id, name) ==
    IF id = "" THEN ErrLoginIDEmpty
    ELSE IF name = "" THEN ErrLoginNameEmpty
    ELSE IF IsLockedOut(f, id) THEN ErrLoginLocked
    ELSE NoErr

\* lines 105-117: the first record with this ID decides
LoginMatches(s, id, name) ==
    FirstByID(s, id) # 0 /\ s[FirstByID(s, id)].Name = name

LoginMessage(s, cat, id) ==
    << "Login berhasil", s[FirstByID(s, id)].Name,
       ProgramName(cat, s[FirstByID(s, id)].StudyProgram) >>

\* a count that leaves out the failures for ids without a record
LoginCountKnownOnly(f, s, id, name) ==
    IF LoginMatches(s, id, name) THEN 0
    ELSE IF FirstByID(s, id) = 0 THEN Attempts(f, id)
    ELSE Attempts(f, id) + 1

\* lines 108, 111, 116: the count after the lookup
LoginCount(f, s, id, name) ==
    IF LoginMatches(s, id, name) THEN 0 ELSE Attempts(f, id) + 1

\* a caller calls Login(id, name); it will block on sm.Lock()
LoginCall(p) ==
    /\ pc[p] = "idle"
    /\ \E in \in LoginInputs :
          call' = [call EXCEPT ![p] =
                     [op |-> "Login", id |-> in[1], name |-> in[2], sp |-> "",
                      consec |-> Attempts(consecFailed, in[1]),
                      attempts |-> 0, matched |-> FALSE, known |-> FALSE]]
    /\ pc' = [pc EXCEPT ![p] = "Login"]
    /\ UNCHANGED <<storeVars, last, local, consecFailed, unknownFailed>>
    /\ UNCHANGED <<importVars, submitVars, heapVars>>

\* lines 91-103: take the lock, check the input and the lockout
LoginEnter(p) ==
    /\ pc[p] = "Login"
    /\ mutex = "free"
    /\ LET e == LoginGuard(failedLoginAttempts, call[p].id, call[p].name)
           c == [call[p] EXCEPT !.attempts = Attempts(failedLoginAttempts, call[p].id)]
       IN  IF e # NoErr
           THEN /\ last' = Returned(c, e, <<>>)
                /\ call' = [call EXCEPT ![p] = NoCall]
                /\ pc' = [pc EXCEPT ![p] = "idle"]
                /\ mutex' = "free"
           ELSE /\ call' = [call EXCEPT ![p] = c]
                /\ pc' = [pc EXCEPT ![p] = "LoginLookup"]
                /\ mutex' = p
                /\ last' = last
    /\ UNCHANGED <<students, studentStudyPrograms, failedLoginAttempts, local,
                   consecFailed, unknownFailed>>
    /\ UNCHANGED <<importVars, submitVars, heapVars>>

\* lines 105-117: look the id up, count, return and unlock
LoginLookup(p) ==
    /\ pc[p] = "LoginLookup"
    /\ LET id == call[p].id
           name == call[p].name
           ok == LoginMatches(students, id, name)
           c == [call[p] EXCEPT !.matched =
                    \E i \in 1..Len(students) :
                       students[i].ID = id /\ students[i].Name = name,
                                !.known = FirstByID(students, id) # 0]
       IN  /\ failedLoginAttempts' =
                 SetAttempts(failedLoginAttempts, id,
                             LoginCount(failedLoginAttempts, students, id, name))
           /\ last' =
                 IF ok
                 THEN Returned(c, NoErr,
                               LoginMessage(students, studentStudyPrograms, id))
                 ELSE Returned(c, ErrLoginNotFound, <<>>)
           /\ consecFailed' =
                 SetAttempts(consecFailed, id,
                             IF ok THEN 0 ELSE Attempts(consecFailed, id) + 1)
           /\ unknownFailed' =
                 SetAttempts(unknownFailed, id,
                             IF FirstByID(students, id) # 0 THEN 0
                             ELSE Attempts(unknownFailed, id) + 1)
    /\ call' = [call EXCEPT ![p] = NoCall]
    /\ pc' = [pc EXCEPT ![p] = "idle"]
    /\ mutex' = "free"
    /\ UNCHANGED <<students, studentStudyPrograms, local>>
    /\ UNCHANGED <<importVars, submitVars, heapVars>>

----------------------------------------------------------------------------
\* Register (it does not take the lock)

\* the checks with the scan for the id before the check of the program
RegisterCheckDuplicateFirst(s, cat, id, name, sp) ==
    IF id = "" \/ name = "" \/ sp = "" THEN ErrRegisterUndefined
    ELSE IF FirstByID(s, id) # 0 THEN ErrRegisterDuplicate
    ELSE IF sp \notin DOMAIN cat THEN ErrRegisterProgram(sp)
    ELSE NoErr

\* lines 121-133: the checks, in the code's order
RegisterCheck(s, cat, id, name, sp) ==
    IF id = "" \/ name = "" \/ sp = "" THEN ErrRegisterUndefined
    ELSE IF sp \notin DOMAIN cat THEN ErrRegisterProgram(sp)
    ELSE IF FirstByID(s, id) # 0 THEN ErrRegisterDuplicate
    ELSE NoErr

RegisterMessage(name, sp) == << "Registrasi berhasil", name, sp >>

\* line 140: append stores the new record after the header it loaded
RegisterAppend(s, id, name, sp) == Append(s, Student(id, name, sp))

\* a caller calls Register(id, name, sp): lines 121-133
RegisterCall(p) ==
    /\ pc[p] = "idle"
    /\ Len(students) < MaxStudents
    /\ \E in \in RegisterInputs :
          LET e == RegisterCheck(students, studentStudyPrograms, in[1], in[2], in[3])
              c == [op |-> "Register", id |-> in[1], name |-> in[2], sp |-> in[3],
                    consec |-> 0, attempts |-> 0, matched |-> FALSE,
                    known |-> FirstByID(students, in[1]) # 0]
          IN  IF e # NoErr
              THEN /\ last' = Returned(c, e, <<>>)
                   /\ UNCHANGED <<pc, call>>
              ELSE /\ call' = [call EXCEPT ![p] = c]
                   /\ pc' = [pc EXCEPT ![p] = "RegisterLoad"]
                   /\ last' = last
    /\ UNCHANGED <<storeVars, local, consecFailed, unknownFailed>>
    /\ UNCHANGED <<importVars, submitVars, heapVars>>

\* line 140, first half: append reads sm.students
RegisterLoad(p) ==
    /\ pc[p] = "RegisterLoad"
    /\ local' = [local EXCEPT ![p] = students]
    /\ pc' = [pc EXCEPT ![p] = "RegisterStore"]
    /\ UNCHANGED <<storeVars, call, last, consecFailed, unknownFailed>>
    /\ UNCHANGED <<importVars, submitVars, heapVars>>

\* lines 140-141: the appended slice is written back to sm.students
RegisterStore(p) ==
    /\ pc[p] = "RegisterStore"
    /\ students' = RegisterAppend(local[p], call[p].id, call[p].name, call[p].sp)
    /\ local' = [local EXCEPT ![p] = <<>>]
    /\ last' = Returned(call[p], NoErr, RegisterMessage(call[p].name, call[p].sp))
    /\ call' = [call EXCEPT ![p] = NoCall]
    /\ pc' = [pc EXCEPT ![p] = "idle"]
    /\ UNCHANGED <<studentStudyPrograms, failedLoginAttempts, mutex, consecFailed,
                   unknownFailed>>
    /\ UNCHANGED <<importVars, submitVars, heapVars>>

----------------------------------------------------------------------------
\* ReadStudentsFromCSV

\* the files on disk: the rows of each, a row being its fields
Files ==
    ("a.csv" :> << <<"C00001", "Citra", "TI">>, <<"C00002", "Candra", "SI">> >>) @@
    ("b.csv" :> << <<"C00003", "Bayu", "MI">> >>) @@
    ("empty.csv" :> << >>) @@
    ("short.csv" :> << <<"C00004", "Sari", "TK">>, <<"C00005", "Seno">> >>) @@
    ("dup.csv" :> << <<"C00006", "Dewi", "TI">>, <<"A12345", "Aditira", "TI">>,
                     <<"C00007", "Dani", "TK">> >>) @@
    ("bad.csv" :> << <<"C00008", "Budi", "XX">>, <<"C00009", "Bima", "TI">> >>) @@
    ("blank.csv" :> << <<"C00010", "", "TI">> >>)

\* the file names a caller may give; missing.csv is not on disk
FileNames == DOMAIN Files \cup {"missing.csv"}

ErrOpen == "open: no such file or directory"
ErrFieldCount == "record on line: wrong number of fields"

\* lines 64-78: a row is a record of exactly 3 fields
FieldsPerRecord == 3

\* lines 56-88: the records of the file, or the error of os.Open or of the
\* first row that has not 3 fields (and then no record at all)
ReadStudentsFromCSV(f) ==
    IF f \notin DOMAIN Files
    THEN [students |-> << >>, err |-> ErrOpen]
    ELSE IF \E i \in 1..Len(Files[f]) : Len(Files[f][i]) # FieldsPerRecord
    THEN [students |-> << >>, err |-> ErrFieldCount]
    ELSE [students |->
             [i \in 1..Len(Files[f]) |->
                 Student(Files[f][i][1], Files[f][i][2], Files[f][i][3])],
          err |-> NoErr]

----------------------------------------------------------------------------
\* ImportStudents: one call, its readers, its closing goroutine. Nothing else
\* uses the store meanwhile, so each sm.Register of the consumer is one step.

Readers == 1..Len(filenames)

\* a reader that forwards its batch whatever the read returned
ReaderSendsAlways(r) == TRUE

\* line 185: a reader sends its batch only when the read succeeded
ReaderSends(r) == r.err = NoErr

\* a barrier that does not wait
WaitDoneAlways(wg) == TRUE

\* line 192: wg.Wait() returns when the counter is 0
WaitDone(wg) == wg = 0

\* lines 180-189: wg.Add(1) and start the reader of the next file name
ImportSpawn ==
    /\ importPc = "spawn"
    /\ spawned < Len(filenames)
    /\ spawned' = spawned + 1
    /\ importWg' = importWg + 1
    /\ readerPc' = [readerPc EXCEPT ![spawned + 1] = "read"]
    /\ UNCHANGED <<filenames, importPc, studentsChanClosed, closerPc, batch,
                   batchIdx, importErr, received>>
    /\ UNCHANGED <<storeVars, callerVars, submitVars, heapVars>>

\* lines 191-196: start the closing goroutine and enter the range loop
ImportSpawnCloser ==
    /\ importPc = "spawn"
    /\ spawned = Len(filenames)
    /\ closerPc' = "wait"
    /\ importPc' = "range"
    /\ UNCHANGED <<filenames, spawned, importWg, studentsChanClosed, readerPc,
                   batch, batchIdx, importErr, received>>
    /\ UNCHANGED <<storeVars, callerVars, submitVars, heapVars>>

\* lines 183-185: the reader reads its file; on an error it returns (wg.Done)
ReaderRead(i) ==
    /\ readerPc[i] = "read"
    /\ IF ReaderSends(ReadStudentsFromCSV(filenames[i]))
       THEN /\ readerPc' = [readerPc EXCEPT ![i] = "send"]
            /\ importWg' = importWg
       ELSE /\ readerPc' = [readerPc EXCEPT ![i] = "done"]
            /\ importWg' = importWg - 1
    /\ UNCHANGED <<filenames, importPc, spawned, studentsChanClosed, closerPc,
                   batch, batchIdx, importErr, received>>
    /\ UNCHANGED <<storeVars, callerVars, submitVars, heapVars>>

\* lines 186 and 196: studentsChan is unbuffered, the send of reader i and the
\* receive of the range loop happen together; an empty batch is skipped
ImportReceive(i) ==
    /\ importPc = "range"
    /\ readerPc[i] = "send"
    /\ ~studentsChanClosed
    /\ readerPc' = [readerPc EXCEPT ![i] = "exit"]
    /\ batch' = ReadStudentsFromCSV(filenames[i]).students
    /\ batchIdx' = 1
    /\ importPc' = IF Len(batch') = 0 THEN "range" ELSE "register"
    /\ received' = Append(received, i)
    /\ UNCHANGED <<filenames, spawned, importWg, studentsChanClosed, closerPc,
                   importErr>>
    /\ UNCHANGED <<storeVars, callerVars, submitVars, heapVars>>

\* line 183: the reader returns after its send, wg.Done()
ReaderExit(i) ==
    /\ readerPc[i] = "exit"
    /\ readerPc' = [readerPc EXCEPT ![i] = "done"]
    /\ importWg' = importWg - 1
    /\ UNCHANGED <<filenames, importPc, spawned, studentsChanClosed, closerPc,
                   batch, batchIdx, importErr, received>>
    /\ UNCHANGED <<storeVars, callerVars, submitVars, heapVars>>

\* lines 192-193: the closing goroutine closes studentsChan after wg.Wait()
CloserClose ==
    /\ closerPc = "wait"
    /\ WaitDone(importWg)
    /\ studentsChanClosed' = TRUE
    /\ closerPc' = "done"
    /\ UNCHANGED <<filenames, importPc, spawned, importWg, readerPc, batch,
                   batchIdx, importErr, received>>
    /\ UNCHANGED <<storeVars, callerVars, submitVars, heapVars>>

\* a consumer that skips a record Register refuses and goes on
ImportRegisterSkipsFailure ==
    /\ importPc = "register"
    /\ LET st == batch[batchIdx]
           e == RegisterCheck(students, studentStudyPrograms,
                              st.ID, st.Name, st.StudyProgram)
       IN  /\ students' = IF e # NoErr THEN students
                          ELSE RegisterAppend(students, st.ID, st.Name, st.StudyProgram)
           /\ importErr' = IF e # NoErr THEN e ELSE importErr
           /\ batchIdx' = batchIdx + 1
           /\ importPc' = IF batchIdx = Len(batch)
                          THEN (IF importErr' # NoErr THEN "done" ELSE "range")
                          ELSE "register"
    /\ UNCHANGED <<filenames, spawned, importWg, studentsChanClosed, readerPc,
                   closerPc, batch, received>>
    /\ UNCHANGED <<studentStudyPrograms, failedLoginAttempts, mutex, callerVars,
                   submitVars, heapVars>>

\* lines 197-202: Register the next record of the batch; return its error
ImportRegister ==
    /\ importPc = "register"
    /\ LET st == batch[batchIdx]
           e == RegisterCheck(students, studentStudyPrograms,
                              st.ID, st.Name, st.StudyProgram)
       IN  IF e # NoErr
           THEN /\ importErr' = e
                /\ importPc' = "done"
                /\ UNCHANGED <<students, batchIdx>>
           ELSE /\ students' = RegisterAppend(students, st.ID, st.Name, st.StudyProgram)
                /\ batchIdx' = batchIdx + 1
                /\ importPc' = IF batchIdx = Len(batch) THEN "range" ELSE "register"
                /\ importErr' = importErr
    /\ UNCHANGED <<filenames, spawned, importWg, studentsChanClosed, readerPc,
                   closerPc, batch, received>>
    /\ UNCHANGED <<studentStudyPrograms, failedLoginAttempts, mutex, callerVars,
                   submitVars, heapVars>>

\* lines 196 and 204: the range loop ends on the closed channel, return nil
ImportReturn ==
    /\ importPc = "range"
    /\ studentsChanClosed
    /\ importPc' = "done"
    /\ importErr' = NoErr
    /\ UNCHANGED <<filenames, spawned, importWg, studentsChanClosed, readerPc,
                   closerPc, batch, batchIdx, received>>
    /\ UNCHANGED <<storeVars, callerVars, submitVars, heapVars>>

----------------------------------------------------------------------------
\* SubmitAssignments: one call, its workers, its closing goroutine

\* line 219
workerCount == 4

Workers == 1..workerCount

\* line 215: jobs is buffered for all the assignments
JobsCap(n) == n

\* a receive that leaves the job in the channel
ReceiveKeeps(q) == q

\* line 224: a receive takes the first job out of the channel
Receive(q) == Tail(q)

\* a barrier that does not wait for the workers
WorkersDoneAlways(wg) == TRUE

\* line 237: wg.Wait() returns when the counter is 0
WorkersDone(wg) == wg = 0

\* line 226: the result of a worker for an assignment
Result(w, a) == [worker |-> w, assignment |-> a]

\* lines 220-229: wg.Add(1) and start the next worker
SubmitSpawn ==
    /\ submitPc = "spawn"
    /\ started < workerCount
    /\ started' = started + 1
    /\ submitWg' = submitWg + 1
    /\ workerPc' = [workerPc EXCEPT ![started + 1] = "range"]
    /\ submitPc' = IF started + 1 = workerCount THEN "produce" ELSE "spawn"
    /\ UNCHANGED <<numAssignments, submitI, jobs, jobsClosed,
                   resultsClosed, workerJob, waiterPc, printed>>
    /\ UNCHANGED <<storeVars, callerVars, importVars, heapVars>>

\* lines 231-233: jobs <- i, which blocks while the channel is full
SubmitProduce ==
    /\ submitPc = "produce"
    /\ submitI <= numAssignments
    /\ Len(jobs) < JobsCap(numAssignments)
    /\ jobs' = Append(jobs, submitI)
    /\ submitI' = submitI + 1
    /\ UNCHANGED <<numAssignments, submitPc, started, jobsClosed, resultsClosed,
                   submitWg, workerPc, workerJob, waiterPc, printed>>
    /\ UNCHANGED <<storeVars, callerVars, importVars, heapVars>>

\* line 234: close(jobs)
SubmitCloseJobs ==
    /\ submitPc = "produce"
    /\ submitI > numAssignments
    /\ jobsClosed' = TRUE
    /\ submitPc' = "closed"
    /\ UNCHANGED <<numAssignments, started, submitI, jobs, resultsClosed,
                   submitWg, workerPc, workerJob, waiterPc, printed>>
    /\ UNCHANGED <<storeVars, callerVars, importVars, heapVars>>

\* lines 236-241: start the closing goroutine and enter the range loop
SubmitSpawnWaiter ==
    /\ submitPc = "closed"
    /\ waiterPc' = "wait"
    /\ submitPc' = "range"
    /\ UNCHANGED <<numAssignments, started, submitI, jobs, jobsClosed,
                   resultsClosed, submitWg, workerPc, workerJob, printed>>
    /\ UNCHANGED <<storeVars, callerVars, importVars, heapVars>>

\* line 224: the worker receives the next assignment
WorkerTake(w) ==
    /\ workerPc[w] = "range"
    /\ jobs # << >>
    /\ workerJob' = [workerJob EXCEPT ![w] = Head(jobs)]
    /\ jobs' = Receive(jobs)
    /\ workerPc' = [workerPc EXCEPT ![w] = "work"]
    /\ UNCHANGED <<numAssignments, submitPc, started, submitI, jobsClosed,
                   resultsClosed, submitWg, waiterPc, printed>>
    /\ UNCHANGED <<storeVars, callerVars, importVars, heapVars>>

\* line 225: SubmitAssignmentLongProcess
WorkerProcess(w) ==
    /\ workerPc[w] = "work"
    /\ workerPc' = [workerPc EXCEPT ![w] = "send"]
    /\ UNCHANGED <<numAssignments, submitPc, started, submitI, jobs, jobsClosed,
                   resultsClosed, submitWg, workerJob, waiterPc, printed>>
    /\ UNCHANGED <<storeVars, callerVars, importVars, heapVars>>

\* lines 226 and 241-242: results is unbuffered, the send of the worker and
\* the receive of the range loop happen together; the result is printed
WorkerSend(w) ==
    /\ workerPc[w] = "send"
    /\ submitPc = "range"
    /\ ~resultsClosed
    /\ printed' = Append(printed, Result(w, workerJob[w]))
    /\ workerJob' = [workerJob EXCEPT ![w] = 0]
    /\ workerPc' = [workerPc EXCEPT ![w] = "range"]
    /\ UNCHANGED <<numAssignments, submitPc, started, submitI, jobs, jobsClosed,
                   resultsClosed, submitWg, waiterPc>>
    /\ UNCHANGED <<storeVars, callerVars, importVars, heapVars>>

\* lines 223-224: jobs is closed and empty, the worker returns, wg.Done()
WorkerExit(w) ==
    /\ workerPc[w] = "range"
    /\ jobs = << >>
    /\ jobsClosed
    /\ workerPc' = [workerPc EXCEPT ![w] = "done"]
    /\ submitWg' = submitWg - 1
    /\ UNCHANGED <<numAssignments, submitPc, started, submitI, jobs, jobsClosed,
                   resultsClosed, workerJob, waiterPc, printed>>
    /\ UNCHANGED <<storeVars, callerVars, importVars, heapVars>>

\* lines 237-238: the closing goroutine closes results after wg.Wait()
WaiterClose ==
    /\ waiterPc = "wait"
    /\ WorkersDone(submitWg)
    /\ resultsClosed' = TRUE
    /\ waiterPc' = "done"
    /\ UNCHANGED <<numAssignments, submitPc, started, submitI, jobs, jobsClosed,
                   submitWg, workerPc, workerJob, printed>>
    /\ UNCHANGED <<storeVars, callerVars, importVars, heapVars>>

\* lines 241-254: the range loop ends on the closed channel, the call returns
SubmitReturn ==
    /\ submitPc = "range"
    /\ resultsClosed
    /\ submitPc' = "done"
    /\ UNCHANGED <<numAssignments, started, submitI, jobs, jobsClosed,
                   resultsClosed, submitWg, workerPc, workerJob, waiterPc, printed>>
    /\ UNCHANGED <<storeVars, callerVars, importVars, heapVars>>

----------------------------------------------------------------------------
\* GetStudents, ModifyStudent and Register on the slice sm.students: a slice
\* is an array and a length, its capacity is the length of the array

\* the zero value of model.Student, in the slots past the length
ZeroStudent == Student("", "", "")

NoSlice == [arr |-> 0, len |-> 0]

\* the records of the slice h
View(a, h) == IF h.arr = 0 THEN << >> ELSE SubSeq(a[h.arr], 1, h.len)

\* line 140: append(h, rec). With room in the array the record is written in
\* place; otherwise the records are copied to a new array of twice the size
AppendSlice(a, h, rec) ==
    IF h.len < Len(a[h.arr])
    THEN [arrays |-> [a EXCEPT ![h.arr][h.len + 1] = rec],
          slice |-> [arr |-> h.arr, len |-> h.len + 1]]
    ELSE [arrays |->
             Append(a, [i \in 1..(2 * Len(a[h.arr])) |->
                           IF i <= h.len THEN a[h.arr][i]
                           ELSE IF i = h.len + 1 THEN rec
                           ELSE ZeroStudent]),
          slice |-> [arr |-> Len(a) + 1, len |-> h.len + 1]]

\* the inputs of ModifyStudent: a name and the code given to ChangeStudyProgram
ModifyInputs ==
    { <<"Aditira", "SI">>, <<"Aditira", "XX">>, <<"New Student", "TK">>,
      <<"Nobody", "SI">> }

ErrStudentNotFound == "Mahasiswa tidak ditemukan"
ErrProgramInvalid == "program studi tidak valid"
ModifyMessage == << "Program studi mahasiswa berhasil diubah." >>

\* lines 155-156: index of the first record with this Name, 0 when there is none
FirstByName(s, name) ==
    IF \E i \in 1..Len(s) : s[i].Name = name
    THEN CHOOSE i \in 1..Len(s) :
            s[i].Name = name /\ \A j \in 1..(i - 1) : s[j].Name # name
    ELSE 0

\* a modifier that sets the program without looking at the catalog
ChangeStudyProgramUnchecked(cat, st, code) ==
    [err |-> NoErr, student |-> [st EXCEPT !.StudyProgram = code]]

\* a modifier that sets the program before it looks at the catalog
ChangeStudyProgramWritesFirst(cat, st, code) ==
    [err |-> IF code \notin DOMAIN cat THEN ErrProgramInvalid ELSE NoErr,
     student |-> [st EXCEPT !.StudyProgram = code]]

\* lines 166-174: the modifier ChangeStudyProgram(code) applied to the record st
ChangeStudyProgram(cat, st, code) ==
    IF code \notin DOMAIN cat
    THEN [err |-> ErrProgramInvalid, student |-> st]
    ELSE [err |-> NoErr, student |-> [st EXCEPT !.StudyProgram = code]]

\* a goroutine has panicked: the program has stopped
Crashed == \E p \in Callers : pc[p] = "panic"

\* lines 50-54: GetStudents returns the slice sm.students itself, under the lock
GetStudents(p) ==
    /\ pc[p] = "idle"
    /\ mutex = "free"
    /\ held' = header
    /\ heldTaken' = View(arrays, header)
    /\ last' = Returned([NoCall EXCEPT !.op = "GetStudents"], NoErr, <<>>)
    /\ UNCHANGED <<storeVars, pc, call, local, consecFailed, unknownFailed>>
    /\ UNCHANGED <<arrays, header, localHeader, found>>
    /\ UNCHANGED <<importVars, submitVars>>

\* a caller calls ModifyStudent(name, sm.ChangeStudyProgram(code))
ModifyCall(p) ==
    /\ pc[p] = "idle"
    /\ \E in \in ModifyInputs :
          call' = [call EXCEPT ![p] =
                     [NoCall EXCEPT !.op = "ModifyStudent",
                                    !.name = in[1], !.sp = in[2]]]
    /\ pc' = [pc EXCEPT ![p] = "ModifyStudent"]
    /\ UNCHANGED <<storeVars, last, local, consecFailed, unknownFailed>>
    /\ UNCHANGED <<importVars, submitVars, heapVars>>

\* lines 152-156 and 163: take the lock and range over sm.students up to the
\* first record with the name; without one, return the error
ModifyScan(p) ==
    /\ pc[p] = "ModifyStudent"
    /\ mutex = "free"
    /\ LET i == FirstByName(View(arrays, header), call[p].name)
       IN  IF i = 0
           THEN /\ last' = Returned(call[p], ErrStudentNotFound, <<>>)
                /\ call' = [call EXCEPT ![p] = NoCall]
                /\ pc' = [pc EXCEPT ![p] = "idle"]
                /\ UNCHANGED <<mutex, found>>
           ELSE /\ found' = [found EXCEPT ![p] = i]
                /\ pc' = [pc EXCEPT ![p] = "ModifyApply"]
                /\ mutex' = p
                /\ UNCHANGED <<call, last>>
    /\ UNCHANGED <<students, studentStudyPrograms, failedLoginAttempts, local,
                   consecFailed, unknownFailed>>
    /\ UNCHANGED <<arrays, header, localHeader, held, heldTaken>>
    /\ UNCHANGED <<importVars, submitVars>>

\* lines 157-160: fn(&sm.students[i]) on the slice as it is now, then return
\* and unlock; an index past its length panics
ModifyApply(p) ==
    /\ pc[p] = "ModifyApply"
    /\ LET i == found[p] IN
          IF i > header.len
          THEN /\ pc' = [pc EXCEPT ![p] = "panic"]
               /\ UNCHANGED <<arrays, students, last, call>>
          ELSE LET r == ChangeStudyProgram(studentStudyPrograms,
                                           arrays[header.arr][i], call[p].sp)
               IN  /\ arrays' = [arrays EXCEPT ![header.arr][i] = r.student]
                   /\ students' = View(arrays', header)
                   /\ last' = Returned(call[p], r.err,
                                       IF r.err = NoErr THEN ModifyMessage ELSE <<>>)
                   /\ call' = [call EXCEPT ![p] = NoCall]
                   /\ pc' = [pc EXCEPT ![p] = "idle"]
    /\ found' = [found EXCEPT ![p] = 0]
    /\ mutex' = "free"
    /\ UNCHANGED <<studentStudyPrograms, failedLoginAttempts, local, consecFailed,
                   unknownFailed>>
    /\ UNCHANGED <<header, localHeader, held, heldTaken>>
    /\ UNCHANGED <<importVars, submitVars>>

\* line 140, first half: append reads sm.students and builds the longer slice
RegisterAppendSlice(p) ==
    /\ pc[p] = "RegisterLoad"
    /\ LET r == AppendSlice(arrays, header,
                            Student(call[p].id, call[p].name, call[p].sp))
       IN  /\ arrays' = r.arrays
           /\ localHeader' = [localHeader EXCEPT ![p] = r.slice]
    /\ pc' = [pc EXCEPT ![p] = "RegisterStore"]
    /\ UNCHANGED <<storeVars, call, last, local, consecFailed, unknownFailed>>
    /\ UNCHANGED <<header, found, held, heldTaken>>
    /\ UNCHANGED <<importVars, submitVars>>

\* lines 140-141: the slice append built is written to sm.students
RegisterStoreSlice(p) ==
    /\ pc[p] = "RegisterStore"
    /\ header' = localHeader[p]
    /\ students' = View(arrays, header')
    /\ localHeader' = [localHeader EXCEPT ![p] = NoSlice]
    /\ last' = Returned(call[p], NoErr, RegisterMessage(call[p].name, call[p].sp))
    /\ call' = [call EXCEPT ![p] = NoCall]
    /\ pc' = [pc EXCEPT ![p] = "idle"]
    /\ UNCHANGED <<studentStudyPrograms, failedLoginAttempts, mutex, local,
                   consecFailed, unknownFailed>>
    /\ UNCHANGED <<arrays, found, held, heldTaken>>
    /\ UNCHANGED <<importVars, submitVars>>

\* a Register may start while an array is left for its append
ArrayLeft ==
    Len(arrays) + Cardinality({q \in Callers : pc[q] = "RegisterLoad"}) < MaxArrays

----------------------------------------------------------------------------
\* The specifications

vars == <<storeVars, callerVars, importVars, submitVars, heapVars>>

StoreInit ==
    /\ students = SeedStudents
    /\ studentStudyPrograms = SeedPrograms
    /\ failedLoginAttempts = << >>
    /\ mutex = "free"

CallersInit ==
    /\ pc = [p \in Callers |-> "idle"]
    /\ call = [p \in Callers |-> NoCall]
    /\ last = NoLast
    /\ local = [p \in Callers |-> <<>>]
    /\ consecFailed = << >>
    /\ unknownFailed = << >>

\* the seed slice: a literal of 3 records has length and capacity 3
HeapInit ==
    /\ arrays = << SeedStudents >>
    /\ header = [arr |-> 1, len |-> Len(SeedStudents)]
    /\ localHeader = [p \in Callers |-> NoSlice]
    /\ found = [p \in Callers |-> 0]
    /\ held = NoSlice
    /\ heldTaken = << >>

\* ImportStudents(names) has been called
ImportCalled(names) ==
    /\ filenames = names
    /\ importPc = "spawn"
    /\ spawned = 0
    /\ importWg = 0
    /\ studentsChanClosed = FALSE
    /\ readerPc = [i \in 1..Len(names) |-> "unspawned"]
    /\ closerPc = "unspawned"
    /\ batch = << >>
    /\ batchIdx = 1
    /\ importErr = NoErr
    /\ received = << >>

\* no ImportStudents call
ImportIdle ==
    /\ filenames = << >>
    /\ importPc = "idle"
    /\ spawned = 0
    /\ importWg = 0
    /\ studentsChanClosed = FALSE
    /\ readerPc = << >>
    /\ closerPc = "unspawned"
    /\ batch = << >>
    /\ batchIdx = 1
    /\ importErr = NoErr
    /\ received = << >>

\* SubmitAssignments(n) has been called
SubmitCalled(n) ==
    /\ numAssignments = n
    /\ submitPc = "spawn"
    /\ started = 0
    /\ submitI = 1
    /\ jobs = << >>
    /\ jobsClosed = FALSE
    /\ resultsClosed = FALSE
    /\ submitWg = 0
    /\ workerPc = [w \in Workers |-> "unspawned"]
    /\ workerJob = [w \in Workers |-> 0]
    /\ waiterPc = "unspawned"
    /\ printed = << >>

\* no SubmitAssignments call
SubmitIdle ==
    /\ numAssignments = 0
    /\ submitPc = "idle"
    /\ started = 0
    /\ submitI = 1
    /\ jobs = << >>
    /\ jobsClosed = FALSE
    /\ resultsClosed = FALSE
    /\ submitWg = 0
    /\ workerPc = [w \in Workers |-> "unspawned"]
    /\ workerJob = [w \in Workers |-> 0]
    /\ waiterPc = "unspawned"
    /\ printed = << >>

Init == StoreInit /\ CallersInit /\ ImportIdle /\ SubmitIdle /\ HeapInit

Next ==
    \E p \in Callers :
        \/ LoginCall(p)
        \/ LoginEnter(p)
        \/ LoginLookup(p)
        \/ RegisterCall(p)
        \/ RegisterLoad(p)
        \/ RegisterStore(p)

Spec == Init /\ [][Next]_vars

ImportInit ==
    /\ StoreInit
    /\ CallersInit
    /\ HeapInit
    /\ SubmitIdle
    /\ \E n \in 0..MaxFiles : \E names \in [1..n -> FileNames] : ImportCalled(names)

ImportNext ==
    \/ ImportSpawn
    \/ ImportSpawnCloser
    \/ \E i \in Readers : ReaderRead(i)
    \/ \E i \in Readers : ImportReceive(i)
    \/ \E i \in Readers : ReaderExit(i)
    \/ CloserClose
    \/ ImportRegister
    \/ ImportReturn

ImportSpec == ImportInit /\ [][ImportNext]_vars

\* the Go scheduler runs every goroutine that can take a step
FairImportSpec == ImportSpec /\ WF_vars(ImportNext)

SubmitInit ==
    /\ StoreInit
    /\ CallersInit
    /\ HeapInit
    /\ ImportIdle
    /\ \E n \in 0..MaxAssignments : SubmitCalled(n)

SubmitNext ==
    \/ SubmitSpawn
    \/ SubmitProduce
    \/ SubmitCloseJobs
    \/ SubmitSpawnWaiter
    \/ \E w \in Workers : WorkerTake(w)
    \/ \E w \in Workers : WorkerProcess(w)
    \/ \E w \in Workers : WorkerSend(w)
    \/ \E w \in Workers : WorkerExit(w)
    \/ WaiterClose
    \/ SubmitReturn

SubmitSpec == SubmitInit /\ [][SubmitNext]_vars

\* the Go scheduler runs every goroutine that can take a step
FairSubmitSpec == SubmitSpec /\ WF_vars(SubmitNext)

\* two goroutines calling GetStudents, ModifyStudent and Register
ModifyNext ==
    /\ ~Crashed
    /\ \E p \in Callers :
          \/ GetStudents(p)
          \/ ModifyCall(p)
          \/ ModifyScan(p)
          \/ ModifyApply(p)
          \/ ArrayLeft /\ RegisterCall(p)
          \/ RegisterAppendSlice(p)
          \/ RegisterStoreSlice(p)

ModifySpec == Init /\ [][ModifyNext]_vars

----------------------------------------------------------------------------
\* Properties of the store under concurrent callers (Spec)

\* a caller is between its first and its last access to sm.students or
\* sm.failedLoginAttempts: Login after the lockout check and before the lookup,
\* Register after its scan for the id and before append has written back
InProgress(p) == pc[p] \in {"LoginLookup", "RegisterLoad", "RegisterStore"}

\* C1: no two records of the store share an ID, whatever the callers did,
\* concurrent Register calls with the same fresh id included
UniqueIDs ==
    \A i, j \in 1..Len(students) :
        i # j => students[i].ID # students[j].ID

\* C2: the operations of the store exclude each other: no two callers are
\* at once between their first and last access to the shared collections
MutualExclusion ==
    \A p, q \in Callers : p # q => ~(InProgress(p) /\ InProgress(q))

\* C3: a Login called after 3 consecutive failed Logins for its id returns
\* the lockout error, whatever name it gives
LockedAfterThreeFailures ==
    (/\ last.call.op = "Login"
     /\ last.call.id # "" /\ last.call.name # ""
     /\ last.call.consec >= 3)
    => last.err = ErrLoginLocked

\* C3 witness: a Login with the name of the id's record was refused after
\* exactly 3 consecutive failures
LockedWithCorrectName ==
    /\ last.call.op = "Login"
    /\ last.call.consec = 3
    /\ LoginMatches(students, last.call.id, last.call.name)
    /\ last.err = ErrLoginLocked

\* C4: Login returns the lockout error only when the count was at least 3,
\* and with a count below 3 and a record matching id and name it succeeds
\* and leaves the count at 0
LoginOnlyLocksAtThree ==
    (/\ last.call.op = "Login"
     /\ last.call.id # "" /\ last.call.name # "")
    => /\ last.err = ErrLoginLocked => last.call.attempts >= 3
       /\ (last.call.attempts < 3 /\ last.call.matched)
             => /\ last.err = NoErr
                /\ Attempts(failedLoginAttempts, last.call.id) = 0

\* the error Register is to return for its input, the checks taken in the
\* order invalid input, unknown program, duplicate id
ExpectedRegisterErr(c) ==
    IF c.id = "" \/ c.name = "" \/ c.sp = "" THEN ErrRegisterUndefined
    ELSE IF c.sp \notin DOMAIN SeedPrograms THEN ErrRegisterProgram(c.sp)
    ELSE IF c.known THEN ErrRegisterDuplicate
    ELSE NoErr

\* this step is the return of a Register that failed
RegisterFailed ==
    /\ last' # last
    /\ last'.call.op = "Register"
    /\ last'.err # NoErr

\* C12: Register returns the error of the first check that fails, in the
\* order invalid input, unknown program, duplicate id, and succeeds when none
\* does; a Register that fails leaves the records, the catalog and the
\* failed-attempt counts as they were
RegisterChecksInOrder ==
    /\ [](last.call.op = "Register" => last.err = ExpectedRegisterErr(last.call))
    /\ [][RegisterFailed => UNCHANGED storeVars]_vars

\* C12 witness: a Register with a seed id and a program outside the catalog
\* returned the unknown-program error
RegisterUnknownProgramOfKnownID ==
    /\ last.call.op = "Register"
    /\ last.call.known
    /\ last.call.id # "" /\ last.call.name # ""
    /\ last.call.sp \notin DOMAIN studentStudyPrograms
    /\ last.err = ErrRegisterProgram(last.call.sp)

\* C13: the store of a successful Register puts exactly its record at the
\* end of the collection as it is at that moment: the length grows by one
\* and every earlier record keeps its content and position
RegisterAppendsAtEnd ==
    [][\A p \in Callers :
          (pc[p] = "RegisterStore" /\ pc'[p] = "idle")
             => students' = Append(students,
                                   Student(call[p].id, call[p].name, call[p].sp))]_vars

\* C15: a Login that fails at the lookup returns the same error and no
\* message and raises the count of its id by one, whether or not the id has
\* a record
FailedLoginsLookAlike ==
    (/\ last.call.op = "Login"
     /\ last.call.id # "" /\ last.call.name # ""
     /\ last.call.attempts < MaxFailedLogin
     /\ ~last.call.matched)
    => /\ last.err = ErrLoginNotFound
       /\ last.msg = <<>>
       /\ Attempts(failedLoginAttempts, last.call.id) = last.call.attempts + 1

\* C15 witness: the third failure of an id without a record has been
\* counted like that of an id with one
UnknownIDCounted ==
    /\ last.call.op = "Login"
    /\ ~last.call.known
    /\ last.call.attempts = 2
    /\ last.err = ErrLoginNotFound
    /\ Attempts(failedLoginAttempts, last.call.id) = 3
    /\ \E id \in DOMAIN failedLoginAttempts :
          FirstByID(students, id) # 0 /\ failedLoginAttempts[id] > 0

\* the ids Login has counted for, before or after a step
CountedIDs == DOMAIN failedLoginAttempts \cup DOMAIN failedLoginAttempts'

\* C16: the count of every id stays in 0..3; it changes only at the return
\* of a Login for that id, by +1 on a failure and to 0 on a success; a
\* lockout refusal leaves it; a count of 3 is never lowered
CountStaysInRange ==
    /\ [](\A id \in DOMAIN failedLoginAttempts :
             failedLoginAttempts[id] \in 0..MaxFailedLogin)
    /\ [][\A id \in CountedIDs :
             LET before == Attempts(failedLoginAttempts, id)
                 after == Attempts(failedLoginAttempts', id)
             IN  /\ before = MaxFailedLogin => after = MaxFailedLogin
                 /\ after # before
                       => /\ last'.call.op = "Login" /\ last'.call.id = id
                          /\ \/ last'.err = NoErr /\ after = 0
                             \/ last'.err = ErrLoginNotFound /\ after = before + 1
                 /\ \A p \in Callers :
                       (pc[p] = "LoginLookup" /\ pc'[p] = "idle" /\ call[p].id = id)
                          => after = IF last'.err = NoErr THEN 0 ELSE before + 1
                 /\ \A p \in Callers :
                       (pc[p] = "Login" /\ pc'[p] = "idle" /\ call[p].id = id)
                          => after = before]_vars

\* C16 witness: a Login was refused by the lockout and the count of its id
\* is still 3
RefusedAtThree ==
    /\ last.call.op = "Login"
    /\ last.err = ErrLoginLocked
    /\ last.call.attempts = MaxFailedLogin
    /\ Attempts(failedLoginAttempts, last.call.id) = MaxFailedLogin

\* C20: the failures of an id are counted also while it has no record and
\* Register does not reset them: once 3 Logins in a row failed for an id
\* without a record, a Register of that id passes its checks, no Register
\* changes a count, and every Login for the id that returns after the third
\* failure is refused by the lockout
CountSurvivesRegister ==
    /\ [](\A id \in DOMAIN unknownFailed :
             unknownFailed[id] >= MaxFailedLogin
                => /\ Attempts(failedLoginAttempts, id) >= MaxFailedLogin
                   /\ \A in \in LoginInputs :
                         (in[1] = id /\ in[2] # "")
                            => LoginGuard(failedLoginAttempts, id, in[2]) = ErrLoginLocked
                   /\ FirstByID(students, id) = 0
                         => RegisterCheck(students, studentStudyPrograms,
                                          id, "New Student", "TI") = NoErr)
    /\ [][students' # students
             => failedLoginAttempts' = failedLoginAttempts]_vars
    /\ []((/\ last.call.op = "Login"
           /\ last.call.id # "" /\ last.call.name # ""
           /\ Attempts(unknownFailed, last.call.id) >= MaxFailedLogin)
          => \/ last.err = ErrLoginLocked
             \/ /\ last.err = ErrLoginNotFound
                /\ last.call.attempts = MaxFailedLogin - 1)

\* C20 witness: an id failed 3 Logins without a record, was registered, and
\* the Login with its id and registered name was refused by the lockout
LockedOutBeforeRegistered ==
    /\ Attempts(unknownFailed, last.call.id) >= MaxFailedLogin
    /\ last.call.op = "Login"
    /\ LoginMatches(students, last.call.id, last.call.name)
    /\ last.err = ErrLoginLocked

----------------------------------------------------------------------------
\* Properties of ImportStudents (ImportSpec, FairImportSpec)

\* the read of source i succeeded
ReadOK(i) == ReadStudentsFromCSV(filenames[i]).err = NoErr

\* the records of the sources is, one batch after the other
RECURSIVE Stream(_)
Stream(is) ==
    IF is = << >> THEN << >>
    ELSE ReadStudentsFromCSV(filenames[Head(is)]).students \o Stream(Tail(is))

\* the records of all sources, in the order of the file names
AllRecords == Stream([i \in 1..Len(filenames) |-> i])

\* how many records this import has added to the store
Added == Len(students) - Len(SeedStudents)

\* every source reads, and the records are valid: no empty field, a program of
\* the catalog, ids pairwise distinct and not in the store before the import
AllValid ==
    /\ \A i \in Readers : ReadOK(i)
    /\ \A k \in 1..Len(AllRecords) :
          /\ AllRecords[k].ID # "" /\ AllRecords[k].Name # ""
          /\ AllRecords[k].StudyProgram \in DOMAIN SeedPrograms
          /\ \A j \in 1..Len(SeedStudents) : SeedStudents[j].ID # AllRecords[k].ID
          /\ \A j \in 1..Len(AllRecords) :
                j # k => AllRecords[j].ID # AllRecords[k].ID

\* C7: once the import has returned a Register error, every reader goroutine
\* finishes: none stays blocked on its send to studentsChan
ReadersFinishAfterAbort ==
    (importPc = "done" /\ importErr # NoErr)
        ~> (\A i \in Readers : readerPc[i] = "done")

\* C8: an import of valid records returns nil and leaves the store with the
\* seed records and each record of the sources exactly once
ImportAddsEveryValidRecord ==
    (importPc = "done" /\ AllValid)
    => /\ importErr = NoErr
       /\ Added = Len(AllRecords)
       /\ SubSeq(students, 1, Len(SeedStudents)) = SeedStudents
       /\ \A k \in 1..Len(AllRecords) :
             Cardinality({j \in 1..Len(students) : students[j] = AllRecords[k]}) = 1

\* C8 witness: two sources with 3 valid records, the second batch arrived first
ImportedOutOfOrder ==
    /\ importPc = "done"
    /\ AllValid
    /\ Len(AllRecords) >= 3
    /\ Len(received) >= 2
    /\ received[1] > received[2]

\* C9: an import that returned an error stopped at the first record Register
\* refused: the store holds the seed records and the records that arrived
\* before that one, in order, and the error is the one Register gives for it
ImportStopsAtFailure ==
    (importPc = "done" /\ importErr # NoErr)
    => /\ Added < Len(Stream(received))
       /\ students = SeedStudents \o SubSeq(Stream(received), 1, Added)
       /\ LET st == Stream(received)[Added + 1] IN
             importErr = RegisterCheck(students, studentStudyPrograms,
                                       st.ID, st.Name, st.StudyProgram)

\* C9 witness: the import failed on a duplicate id after it had registered a
\* record, with a record left in the batch and another batch waiting
ImportAbortedMidBatch ==
    /\ importPc = "done"
    /\ importErr = ErrRegisterDuplicate
    /\ Added >= 1
    /\ batchIdx < Len(batch)
    /\ \E i \in Readers : readerPc[i] = "send"

\* C10: a source whose read fails never sends a batch and puts no record in
\* the store, its error is never the import's result, the batches of the other
\* sources are all registered, and an import whose reads all fail returns nil
\* with the store unchanged
ReadFailuresAreDropped ==
    /\ \A i \in Readers :
          ~ReadOK(i) =>
             /\ readerPc[i] \in {"unspawned", "read", "done"}
             /\ \A k \in 1..Len(received) : received[k] # i
             /\ filenames[i] \in DOMAIN Files =>
                   \A r \in 1..Len(Files[filenames[i]]) :
                      \A j \in 1..Len(students) :
                         students[j].ID # Files[filenames[i]][r][1]
    /\ importErr \notin {ErrOpen, ErrFieldCount}
    /\ (importPc = "done" /\ importErr = NoErr)
          => /\ students = SeedStudents \o Stream(received)
             /\ \A i \in Readers :
                   ReadOK(i) =>
                      Cardinality({k \in 1..Len(received) : received[k] = i}) = 1
    /\ (importPc = "done" /\ \A i \in Readers : ~ReadOK(i))
          => importErr = NoErr /\ students = SeedStudents

\* C10 witness: an import of a missing file, a malformed file and a good file
\* returned nil with the good file's records registered
ImportedDespiteReadFailures ==
    /\ importPc = "done"
    /\ importErr = NoErr
    /\ \E i \in Readers : filenames[i] = "missing.csv"
    /\ \E i \in Readers : filenames[i] = "short.csv"
    /\ Added = 2

\* C19: an import that returned nil has every reader terminated and
\* studentsChan closed; the channel is closed only when every reader has
\* returned, so no reader is at its send on the closed channel; and the
\* records in the store are those of the batches received, each batch in the
\* order of its source
ImportClosesAfterReaders ==
    /\ (importPc = "done" /\ importErr = NoErr)
          => /\ studentsChanClosed
             /\ importWg = 0
             /\ \A i \in Readers : readerPc[i] = "done"
    /\ studentsChanClosed => \A i \in Readers : readerPc[i] = "done"
    /\ \A i \in Readers : ~(readerPc[i] = "send" /\ studentsChanClosed)
    /\ Added <= Len(Stream(received))
    /\ students = SeedStudents \o SubSeq(Stream(received), 1, Added)
    /\ importPc = "register"
          => SubSeq(students, Len(students) - batchIdx + 2, Len(students))
                = SubSeq(batch, 1, batchIdx - 1)

\* C19 witness: an import of two or more sources returned nil after it
\* received two batches and registered 3 records, one batch of 2 among them
ImportReturnedNil ==
    /\ importPc = "done"
    /\ importErr = NoErr
    /\ studentsChanClosed
    /\ Len(received) >= 2
    /\ Added >= 3
    /\ \E k \in 1..Len(received) :
          Len(ReadStudentsFromCSV(filenames[received[k]]).students) >= 2

----------------------------------------------------------------------------
\* Properties of SubmitAssignments (SubmitSpec, FairSubmitSpec)

\* the indexes of the results printed for assignment a
PrintedFor(a) == {k \in 1..Len(printed) : printed[k].assignment = a}

\* C5: no assignment is ever reported twice, and when the call returns each
\* assignment 1..n has exactly one result, n results in all, with no
\* assignment left in the channel or in a worker's hands
SubmitReportsEachOnce ==
    /\ \A k \in 1..Len(printed) :
          /\ printed[k].assignment \in 1..numAssignments
          /\ Cardinality(PrintedFor(printed[k].assignment)) = 1
    /\ submitPc = "done"
          => /\ Len(printed) = numAssignments
             /\ \A a \in 1..numAssignments : Cardinality(PrintedFor(a)) = 1
             /\ jobs = << >>
             /\ \A w \in Workers : workerJob[w] = 0

\* C5 witness: a call with 3 or more assignments returned, the results came
\* out of order and from different workers
SubmittedOutOfOrder ==
    /\ submitPc = "done"
    /\ numAssignments >= 3
    /\ printed[1].assignment > printed[2].assignment
    /\ printed[1].worker # printed[2].worker

\* no worker is sending on results after it was closed
NoSendOnClosed == \A w \in Workers : ~(workerPc[w] = "send" /\ resultsClosed)

\* C6: under a fair schedule the call returns; the producer never finds the
\* jobs channel full, results is closed only when every worker has returned,
\* no worker sends on the closed channel, and a call with 0 assignments
\* returns with no result
SubmitReturns ==
    /\ <>(submitPc = "done")
    /\ [](submitPc = "produce" /\ submitI <= numAssignments
             => Len(jobs) < JobsCap(numAssignments))
    /\ [](resultsClosed => \A w \in Workers : workerPc[w] = "done")
    /\ []NoSendOnClosed
    /\ [](submitPc = "done" /\ numAssignments = 0 => printed = << >>)

\* C6 witness: a call with 3 or more assignments has returned, all workers
\* have exited and results is closed
SubmitReturned ==
    /\ submitPc = "done"
    /\ numAssignments >= 3
    /\ resultsClosed
    /\ \A w \in Workers : workerPc[w] = "done"

----------------------------------------------------------------------------
\* Properties of GetStudents and ModifyStudent (ModifySpec)

\* C11: the list a GetStudents call returned is a snapshot: whatever
\* ModifyStudent and Register do afterwards, it holds the records it held
\* when it was returned
HeldListIsSnapshot == held # NoSlice => View(arrays, held) = heldTaken

\* this step is the return of caller p from the modifier of ModifyStudent
ModifyReturns(p) == pc[p] = "ModifyApply" /\ pc'[p] # "ModifyApply"

\* C14: ModifyStudent(name, fn) applies fn to the first record of the store
\* with that Name and changes no other record; with no such record it
\* returns the not-found error and changes nothing
ModifyChangesFirstMatch ==
    [][\A p \in Callers :
          /\ ModifyReturns(p)
                => LET i == FirstByName(students, call[p].name) IN
                      /\ i # 0
                      /\ pc'[p] = "idle"
                      /\ students' =
                            [students EXCEPT ![i] =
                                ChangeStudyProgram(studentStudyPrograms, students[i],
                                                   call[p].sp).student]
          /\ (pc[p] = "ModifyStudent" /\ pc'[p] = "idle")
                => /\ FirstByName(students, call[p].name) = 0
                   /\ last'.err = ErrStudentNotFound
                   /\ students' = students]_vars

\* C17: the StudyProgram of every record is a key of the catalog, and the
\* catalog is the one the constructor made
ProgramsInCatalog ==
    /\ \A i \in 1..Len(students) :
          students[i].StudyProgram \in DOMAIN studentStudyPrograms
    /\ studentStudyPrograms = SeedPrograms

\* C17 witness: the store holds a registered record and a record whose
\* program ModifyStudent changed, and a change to a code outside the catalog
\* has been refused
ModifiedAndRegistered ==
    /\ Len(students) > Len(SeedStudents)
    /\ \E i \in 1..Len(SeedStudents) :
          students[i].StudyProgram # SeedStudents[i].StudyProgram
    /\ last.call.op = "ModifyStudent"
    /\ last.err = ErrProgramInvalid

\* C18: when the modifier returns an error ModifyStudent returns it and no
\* record changes; ChangeStudyProgram with a code outside the catalog is such
\* a modifier, whatever records follow with the same Name
FailedModifierChangesNothing ==
    [][\A p \in Callers :
          (pc[p] = "ModifyApply" /\ pc'[p] = "idle")
             => /\ call[p].sp \notin DOMAIN studentStudyPrograms
                      => last'.err = ErrProgramInvalid
                /\ last'.err # NoErr
                      => /\ last'.err = ErrProgramInvalid
                         /\ last'.msg = <<>>
                         /\ students' = students
                         /\ arrays' = arrays]_vars

\* C18 witness: a change to a code outside the catalog was refused while two
\* records had the Name, and both kept their program
RefusedWithTwoOfTheName ==
    /\ last.call.op = "ModifyStudent"
    /\ last.err = ErrProgramInvalid
    /\ Cardinality({i \in 1..Len(students) : students[i].Name = last.call.name}) >= 2
    /\ \A i \in 1..Len(students) :
          students[i].Name = last.call.name => students[i].StudyProgram = "TI"

====
